---- MODULE Spec2Model ----
(***************************************************************************)
(* State-machine model of the LFD pick sequence node (LFD.py): the two     *)
(* subscription callbacks of LFDUser, the exception unwinding out of       *)
(* rclpy.spin, and the straight-line body of proxy_pick_sequence.          *)
(*                                                                         *)
(* A text payload is a sequence of one-character strings.  A number is a   *)
(* record [num, den] standing for num/den with den a power of ten, so the  *)
(* comparisons made on floats in the code are made exactly here.           *)
(***************************************************************************)
EXTENDS Integers, Sequences, FiniteSets, TLC

VARIABLES
    pc,                 \* position of the process inside main/proxy_pick_sequence
    uncaught,           \* exception that left proxy_pick_sequence ("none" while running)
    distance_count,     \* self.distance_count
    excecution_stage,   \* self.excecution_stage
    vacuum_response,    \* outcome of the call held in self.vacuum_response
    fingers_response,   \* outcome of the call held in self.fingers_response
    dq,                 \* messages waiting in the gripper/distance subscription
    pq,                 \* messages waiting in the gripper/pressure subscription
    events,             \* externally visible events, in the order they happened
    window,             \* history: band flags of the last distance messages handed
                        \* to the callback while the proximity gate was open
    last,               \* history: the thing most recently delivered to the process
    bags,               \* numbers n for which today's bag directory <date>_n exists
    rosbag_number,      \* the local rosbag_number of proxy_pick_sequence
    payload,            \* a payload put to lines 83-84 on its own
    extracted           \* what lines 83-84 made of payload

\* the variables outside the pick sequence proper
aux == <<bags, rosbag_number, payload, extracted>>

vars == <<pc, uncaught, distance_count, excecution_stage, vacuum_response,
          fingers_response, dq, pq, events, window, last, aux>>

\* program state only (no subscription backlog, no history)
prog == <<pc, uncaught, distance_count, excecution_stage, events>>

---------------------------------------------------------------------------
(* Program constants *)

GOOD_READINGS == 10         \* if self.distance_count == 10
BAND_LOW == 100             \* float(...) > 100
BAND_HIGH == 200            \* float(...) < 200
PRESSURE_THRESHOLD == 2000  \* if sum < 2000
QOS_DEPTH == 10             \* create_subscription(..., 10)

(* Bounds of the model *)

MaxPending == 1             \* messages the feed lets pile up per subscription

---------------------------------------------------------------------------
(* Inputs *)

\* payloads of std_msgs/String on gripper/distance
DistancePayloads ==
    { <<"1","5","0">>,                       \* 150
      <<"1","0","0">>,                       \* 100, lower edge
      <<"2","0","0">>,                       \* 200, upper edge
      <<"2","5","0">>,                       \* 250
      <<"d","=","1","5","7",".","3","m">>,   \* 157.3 inside text
      <<"1","9","9",".","9">>,               \* 199.9
      <<"n","o">>,                           \* no digit at all
      <<"-","-","1","5","0">> }              \* matched, but no float literal

\* payloads of std_msgs/Float32MultiArray on gripper/pressure (three channels)
PressureReadings ==
    { <<700, 700, 700>>,    \* 2100
      <<600, 700, 700>>,    \* 2000
      <<666, 666, 667>>,    \* 1999
      <<600, 600, 600>> }   \* 1800

Digits == {"0","1","2","3","4","5","6","7","8","9"}

---------------------------------------------------------------------------
\* re.search of the pattern: dashes, one or more digits, dots, digits, and then
\* a negative lookahead for any later digit

\* length of the longest run of characters of C that starts at s[i]
RunLen(s, i, C) ==
    IF i > Len(s) THEN 0
    ELSE Cardinality({ j \in i..Len(s) : \A x \in i..j : s[x] \in C })

\* the negative lookahead at position j: no digit at or after s[j]
NoDigitFrom(s, j) == \A x \in j..Len(s) : s[x] \notin Digits

\* ways the pattern matches when anchored at s[i]: <<dashes, digits, dots, digits>>
MatchesAt(s, i) ==
    UNION { UNION { UNION {
        { <<k, d, p, e>> : e \in { x \in 0..RunLen(s, i + k + d + p, Digits) :
                                      NoDigitFrom(s, i + k + d + p + x) } } :
            p \in 0..RunLen(s, i + k + d, {"."}) } :
            d \in 1..RunLen(s, i + k, Digits) } :
            k \in 0..RunLen(s, i, {"-"}) }

\* every way the pattern matches anywhere in s
AllMatches(s) ==
    UNION { { [found |-> TRUE, start |-> i,
               dashes |-> m[1], int |-> m[2], dots |-> m[3], frac |-> m[4]] :
              m \in MatchesAt(s, i) } : i \in 1..Len(s) }

\* the order in which the backtracking engine comes upon matches: leftmost start
\* first, and every quantifier is greedy, so the first one gives way last
Before(m, n) ==
    \/ m.start < n.start
    \/ m.start = n.start /\ m.dashes > n.dashes
    \/ m.start = n.start /\ m.dashes = n.dashes /\ m.int > n.int
    \/ m.start = n.start /\ m.dashes = n.dashes /\ m.int = n.int /\ m.dots > n.dots
    \/ m.start = n.start /\ m.dashes = n.dashes /\ m.int = n.int /\ m.dots = n.dots
       /\ m.frac >= n.frac

\* the first of the matches A the engine comes upon; found = FALSE is Python's None
First(A) ==
    IF A = {} THEN [found |-> FALSE]
    ELSE CHOOSE m \in A : \A n \in A : Before(m, n)

\* re.search
Search(s) == CHOOSE m \in { First(A) : A \in {AllMatches(s)} } : TRUE

\* the text of a match, data.group(0)
Text(s, m) == SubSeq(s, m.start, m.start + m.dashes + m.int + m.dots + m.frac - 1)

Group0(s) == CHOOSE t \in { Text(s, m) : m \in {Search(s)} } : TRUE

---------------------------------------------------------------------------
(* float(data.group(0)) *)

DigitVal(c) == CHOOSE n \in 0..9 : ToString(n) = c

\* the value of a string of decimal digits s[a..b] (0 when it is empty)
DecVal(s, a, b) ==
    LET v[n \in (a - 1)..b] == IF n = a - 1 THEN 0 ELSE 10 * v[n - 1] + DigitVal(s[n])
    IN  v[b]

Pow10(n) ==
    LET q[x \in 0..n] == IF x = 0 THEN 1 ELSE 10 * q[x - 1]
    IN  q[n]

\* float() of the text of match m.  float() takes at most one sign and at most
\* one point, and the text has the shape dashes digits dots digits, so
\* ok = FALSE is Python's ValueError
FloatOf(s, m) ==
    IF m.dashes > 1 \/ m.dots > 1 THEN [ok |-> FALSE]
    ELSE [ok |-> TRUE,
          num |-> (IF m.dashes = 1 THEN -1 ELSE 1)
                  * ( DecVal(s, m.start + m.dashes, m.start + m.dashes + m.int - 1)
                        * Pow10(m.frac)
                      + DecVal(s, m.start + m.dashes + m.int + m.dots,
                               m.start + m.dashes + m.int + m.dots + m.frac - 1) ),
          den |-> Pow10(m.frac)]

\* lines 83-84 up to the comparison: the number read from payload s, or the
\* exception raised on the way (None has no group; float() rejects the text)
ExtractOf(s, m) ==
    IF ~m.found THEN [error |-> "AttributeError"]
    ELSE IF ~FloatOf(s, m).ok THEN [error |-> "ValueError"]
    ELSE [error |-> "none", num |-> FloatOf(s, m).num, den |-> FloatOf(s, m).den]

Extract(s) == CHOOSE x \in { ExtractOf(s, m) : m \in {Search(s)} } : TRUE

---------------------------------------------------------------------------
(* Topic callbacks *)

\* float(data.group(0))>100 and float(data.group(0))<200
InBand(v) == v.num > BAND_LOW * v.den /\ v.num < BAND_HIGH * v.den

\* lines 83-87 on the extracted value x, at counter value count
CountReading(count, stage, x) ==
    IF x.error # "none"
    THEN [distance_count |-> count, excecution_stage |-> stage,
          raised |-> x.error, evaluated |-> TRUE]
    ELSE [distance_count |-> IF InBand(x) THEN count + 1 ELSE 0,
          excecution_stage |-> stage,
          raised |-> "none", evaluated |-> TRUE]

\* distance_listener_callback without its first two lines (the stage check)
distance_listener_callback_NoStageCheck(count, stage, s) ==
    IF count = GOOD_READINGS
    THEN [distance_count |-> count, excecution_stage |-> 1,
          raised |-> "SystemExit", evaluated |-> FALSE]
    ELSE CHOOSE r \in { CountReading(count, stage, x) : x \in {Extract(s)} } : TRUE

\* distance_listener_callback testing the counter one reading too late
distance_listener_callback_LateCheck(count, stage, s) ==
    IF stage # 0
    THEN [distance_count |-> count, excecution_stage |-> stage,
          raised |-> "none", evaluated |-> FALSE]
    ELSE IF count = GOOD_READINGS + 1
    THEN [distance_count |-> count, excecution_stage |-> 1,
          raised |-> "SystemExit", evaluated |-> FALSE]
    ELSE CHOOSE r \in { CountReading(count, stage, x) : x \in {Extract(s)} } : TRUE

\* distance_listener_callback testing the counter after counting the reading
distance_listener_callback_TripsOnTenth(count, stage, s) ==
    IF stage # 0
    THEN [distance_count |-> count, excecution_stage |-> stage,
          raised |-> "none", evaluated |-> FALSE]
    ELSE CHOOSE r \in
           { IF c.raised = "none" /\ c.distance_count = GOOD_READINGS
             THEN [distance_count |-> GOOD_READINGS, excecution_stage |-> 1,
                   raised |-> "SystemExit", evaluated |-> TRUE]
             ELSE c :
             c \in { CountReading(count, stage, x) : x \in {Extract(s)} } } : TRUE

\* distance_listener_callback: the fields it leaves behind, the exception it
\* raises, and whether it got as far as reading the payload
distance_listener_callback(count, stage, s) ==
    IF stage # 0
    THEN [distance_count |-> count, excecution_stage |-> stage,
          raised |-> "none", evaluated |-> FALSE]
    ELSE IF count = GOOD_READINGS
    THEN [distance_count |-> count, excecution_stage |-> 1,
          raised |-> "SystemExit", evaluated |-> FALSE]
    ELSE CHOOSE r \in { CountReading(count, stage, x) : x \in {Extract(s)} } : TRUE

\* sum = msg.data[0] + msg.data[1] + msg.data[2]
ChannelSum(r) == r[1] + r[2] + r[3]

\* pressure_listener_callback comparing with <= instead of <
pressure_listener_callback_Inclusive(stage, r) ==
    IF stage # 1
    THEN [excecution_stage |-> stage, raised |-> "none", evaluated |-> FALSE]
    ELSE IF ChannelSum(r) <= PRESSURE_THRESHOLD
    THEN [excecution_stage |-> stage, raised |-> "SystemExit", evaluated |-> TRUE]
    ELSE [excecution_stage |-> stage, raised |-> "none", evaluated |-> TRUE]

\* pressure_listener_callback re-arming the distance gate while the cups are
\* not yet engaged
pressure_listener_callback_Rearms(stage, r) ==
    IF stage # 1
    THEN [excecution_stage |-> stage, raised |-> "none", evaluated |-> FALSE]
    ELSE IF ChannelSum(r) < PRESSURE_THRESHOLD
    THEN [excecution_stage |-> stage, raised |-> "SystemExit", evaluated |-> TRUE]
    ELSE [excecution_stage |-> 0, raised |-> "none", evaluated |-> TRUE]

\* pressure_listener_callback
pressure_listener_callback(stage, r) ==
    IF stage # 1
    THEN [excecution_stage |-> stage, raised |-> "none", evaluated |-> FALSE]
    ELSE IF ChannelSum(r) < PRESSURE_THRESHOLD
    THEN [excecution_stage |-> stage, raised |-> "SystemExit", evaluated |-> TRUE]
    ELSE [excecution_stage |-> stage, raised |-> "none", evaluated |-> TRUE]

---------------------------------------------------------------------------
(* Service client calls *)

\* send_vacuum_request building its request without the argument
send_vacuum_request_IgnoresStatus(vacuum_status) ==
    [event |-> "vacuum_on", response |-> "pending"]

\* send_vacuum_request: the command that goes out and the call left pending
send_vacuum_request(vacuum_status) ==
    [event |-> IF vacuum_status THEN "vacuum_on" ELSE "vacuum_off",
     response |-> "pending"]

\* send_fingers_request
send_fingers_request(fingers_status) ==
    [event |-> IF fingers_status THEN "fingers_close" ELSE "fingers_open",
     response |-> "pending"]

---------------------------------------------------------------------------
(* proxy_pick_sequence *)

\* callbacks also served while input() waits
Spinning_AlsoAtPrompt(p) ==
    p \in {"spin_distance", "spin_pressure", "prompt_release"}

\* the two rclpy.spin calls
Spinning(p) == p \in {"spin_distance", "spin_pressure"}

\* every call of proxy_pick_sequence that blocks, where Ctrl+C can land
Blocking(p) == p \in {"sleep_start", "spin_distance", "spin_pressure",
                      "prompt_release", "sleep_stop"}

\* where an exception raised at position p ends up: the except clause of the
\* try around p if it names the exception, out of the function otherwise
Unwind(p, exc) ==
    IF exc = "none" THEN [pc |-> p, uncaught |-> "none"]
    ELSE IF p = "spin_distance" /\ exc \in {"SystemExit"}
    THEN [pc |-> "vacuum_on", uncaught |-> "none"]
    ELSE IF p = "spin_pressure" /\ exc \in {"SystemExit", "KeyboardInterrupt"}
    THEN [pc |-> "fingers_close", uncaught |-> "none"]
    ELSE [pc |-> p, uncaught |-> exc]

Running == uncaught = "none" /\ pc # "done"

\* history only: is the payload a number strictly between 100 and 200
StrictlyInside(s) ==
    \E x \in {Extract(s)} :
        x.error = "none" /\ 100 * x.den < x.num /\ x.num < 200 * x.den

\* history only: keep the newest GOOD_READINGS flags
Slide(w, b) ==
    IF Len(w) < GOOD_READINGS THEN Append(w, b) ELSE Append(Tail(w), b)

\* the fields and the process right after LFDUser() and the first prompt
Constructed ==
    /\ pc = "start_recorder"
    /\ uncaught = "none"
    /\ distance_count = 0
    /\ excecution_stage = 0
    /\ vacuum_response = "none"
    /\ fingers_response = "none"
    /\ dq = 0
    /\ pq = 0
    /\ events = <<>>
    /\ window = <<>>
    /\ last = [kind |-> "none"]
    /\ rosbag_number = 1

\* one pick, on a day that already has the bags _1 and _2
Init ==
    /\ Constructed
    /\ bags = {1, 2}
    /\ payload = <<>>
    /\ extracted = [error |-> "unread"]

\* the feed publishes on gripper/distance; the subscription keeps the newest
\* QOS_DEPTH messages until the node spins
PublishDistance ==
    /\ Running
    /\ dq < MaxPending
    /\ dq' = IF dq < QOS_DEPTH THEN dq + 1 ELSE dq
    /\ UNCHANGED <<aux, pc, uncaught, distance_count, excecution_stage, vacuum_response,
                   fingers_response, pq, events, window, last>>

PublishPressure ==
    /\ Running
    /\ pq < MaxPending
    /\ pq' = IF pq < QOS_DEPTH THEN pq + 1 ELSE pq
    /\ UNCHANGED <<aux, pc, uncaught, distance_count, excecution_stage, vacuum_response,
                   fingers_response, dq, events, window, last>>

\* rclpy.spin hands one gripper/distance message to distance_listener_callback
DispatchDistance ==
    /\ Running
    /\ Spinning(pc)
    /\ dq > 0
    /\ \E s \in DistancePayloads :
         \E r \in {distance_listener_callback(distance_count, excecution_stage, s)} :
             /\ distance_count' = r.distance_count
             /\ excecution_stage' = r.excecution_stage
             /\ pc' = Unwind(pc, r.raised).pc
             /\ uncaught' = Unwind(pc, r.raised).uncaught
             /\ window' = IF excecution_stage = 0
                          THEN Slide(window, StrictlyInside(s)) ELSE window
             /\ last' = [kind |-> "distance", msg |-> s, evaluated |-> r.evaluated]
    /\ dq' = dq - 1
    /\ UNCHANGED <<aux, vacuum_response, fingers_response, pq, events>>

\* rclpy.spin hands one gripper/pressure message to pressure_listener_callback
DispatchPressure ==
    /\ Running
    /\ Spinning(pc)
    /\ pq > 0
    /\ \E r \in PressureReadings :
         \E c \in {pressure_listener_callback(excecution_stage, r)} :
             /\ excecution_stage' = c.excecution_stage
             /\ pc' = Unwind(pc, c.raised).pc
             /\ uncaught' = Unwind(pc, c.raised).uncaught
             /\ last' = [kind |-> "pressure", msg |-> r, evaluated |-> c.evaluated]
    /\ pq' = pq - 1
    /\ UNCHANGED <<aux, distance_count, vacuum_response, fingers_response, dq, events, window>>

\* the operator presses Ctrl+C while the process sits in a blocking call
Interrupt ==
    /\ Running
    /\ Blocking(pc)
    /\ pc' = Unwind(pc, "KeyboardInterrupt").pc
    /\ uncaught' = Unwind(pc, "KeyboardInterrupt").uncaught
    /\ last' = [kind |-> "interrupt"]
    /\ UNCHANGED <<aux, distance_count, excecution_stage, vacuum_response,
                   fingers_response, dq, pq, events, window>>

\* lines 117-118: the name with this number is taken, try the next one
NextBagNumber ==
    /\ Running
    /\ pc = "start_recorder"
    /\ rosbag_number \in bags
    /\ rosbag_number' = rosbag_number + 1
    /\ UNCHANGED <<pc, uncaught, distance_count, excecution_stage, vacuum_response,
                   fingers_response, dq, pq, events, window, last, bags, payload,
                   extracted>>

\* lines 120-124 without the search of lines 116-118
StartRecorder_SkipsSearch ==
    /\ Running
    /\ pc = "start_recorder"
    /\ events' = Append(events, "recorder_start")
    /\ pc' = "sleep_start"
    /\ UNCHANGED <<aux, uncaught, distance_count, excecution_stage, vacuum_response,
                   fingers_response, dq, pq, window, last>>

\* lines 117-124: the name is free, start "ros2 bag record" under it
StartRecorder ==
    /\ Running
    /\ pc = "start_recorder"
    /\ rosbag_number \notin bags
    /\ events' = Append(events, "recorder_start")
    /\ pc' = "sleep_start"
    /\ UNCHANGED <<aux, uncaught, distance_count, excecution_stage, vacuum_response,
                   fingers_response, dq, pq, window, last>>

\* line 126: time.sleep(2), then the first rclpy.spin is entered
SettleAfterStart ==
    /\ Running
    /\ pc = "sleep_start"
    /\ pc' = "spin_distance"
    /\ UNCHANGED <<aux, uncaught, distance_count, excecution_stage, vacuum_response,
                   fingers_response, dq, pq, events, window, last>>

\* lines 136-139: send_vacuum_request(True), then the second rclpy.spin is entered
TurnVacuumOn ==
    /\ Running
    /\ pc = "vacuum_on"
    /\ events' = Append(events, send_vacuum_request(TRUE).event)
    /\ vacuum_response' = send_vacuum_request(TRUE).response
    /\ pc' = "spin_pressure"
    /\ UNCHANGED <<aux, uncaught, distance_count, excecution_stage, fingers_response,
                   dq, pq, window, last>>

\* lines 147-153 without the input() call between them
EngageFingers_NoPrompt ==
    /\ Running
    /\ pc = "fingers_close"
    /\ events' = Append(events, send_fingers_request(TRUE).event)
    /\ fingers_response' = send_fingers_request(TRUE).response
    /\ pc' = "fingers_open"
    /\ UNCHANGED <<aux, uncaught, distance_count, excecution_stage, vacuum_response,
                   dq, pq, window, last>>

\* lines 147-150 going on only once the vacuum call has come back with success
EngageFingers_AwaitsVacuum ==
    /\ Running
    /\ pc = "fingers_close"
    /\ vacuum_response = "success"
    /\ events' = Append(events, send_fingers_request(TRUE).event)
    /\ fingers_response' = send_fingers_request(TRUE).response
    /\ pc' = "prompt_release"
    /\ UNCHANGED <<aux, uncaught, distance_count, excecution_stage, vacuum_response,
                   dq, pq, window, last>>

\* lines 147-150: send_fingers_request(True), then the prompt is shown
EngageFingers ==
    /\ Running
    /\ pc = "fingers_close"
    /\ events' = Append(events, send_fingers_request(TRUE).event)
    /\ fingers_response' = send_fingers_request(TRUE).response
    /\ pc' = "prompt_release"
    /\ UNCHANGED <<aux, uncaught, distance_count, excecution_stage, vacuum_response,
                   dq, pq, window, last>>

\* line 150: the operator presses enter and input() returns
OperatorConfirm ==
    /\ Running
    /\ pc = "prompt_release"
    /\ events' = Append(events, "operator_confirm")
    /\ pc' = "fingers_open"
    /\ UNCHANGED <<aux, uncaught, distance_count, excecution_stage, vacuum_response,
                   fingers_response, dq, pq, window, last>>

\* line 153 with the recorder killed ahead of the release commands
DisengageFingers_StopsRecorderFirst ==
    /\ Running
    /\ pc = "fingers_open"
    /\ events' = events \o <<"recorder_stop", send_fingers_request(FALSE).event>>
    /\ fingers_response' = send_fingers_request(FALSE).response
    /\ pc' = "vacuum_off"
    /\ UNCHANGED <<aux, uncaught, distance_count, excecution_stage, vacuum_response,
                   dq, pq, window, last>>

\* line 153: send_fingers_request(False)
DisengageFingers ==
    /\ Running
    /\ pc = "fingers_open"
    /\ events' = Append(events, send_fingers_request(FALSE).event)
    /\ fingers_response' = send_fingers_request(FALSE).response
    /\ pc' = "vacuum_off"
    /\ UNCHANGED <<aux, uncaught, distance_count, excecution_stage, vacuum_response,
                   dq, pq, window, last>>

\* line 157: send_vacuum_request(False)
TurnVacuumOff ==
    /\ Running
    /\ pc = "vacuum_off"
    /\ events' = Append(events, send_vacuum_request(FALSE).event)
    /\ vacuum_response' = send_vacuum_request(FALSE).response
    /\ pc' = "stop_recorder"
    /\ UNCHANGED <<aux, uncaught, distance_count, excecution_stage, fingers_response,
                   dq, pq, window, last>>

\* line 162: os.killpg on the recorder's process group
StopRecorder ==
    /\ Running
    /\ pc = "stop_recorder"
    /\ events' = Append(events, "recorder_stop")
    /\ pc' = "sleep_stop"
    /\ UNCHANGED <<aux, uncaught, distance_count, excecution_stage, vacuum_response,
                   fingers_response, dq, pq, window, last>>

\* lines 163-166: time.sleep(2), then return
SettleAfterStop ==
    /\ Running
    /\ pc = "sleep_stop"
    /\ pc' = "done"
    /\ UNCHANGED <<aux, uncaught, distance_count, excecution_stage, vacuum_response,
                   fingers_response, dq, pq, events, window, last>>

\* the Actuator Service answers the vacuum call that is still open
VacuumReply ==
    /\ Running
    /\ vacuum_response = "pending"
    /\ vacuum_response' \in {"success", "failure"}
    /\ UNCHANGED <<aux, pc, uncaught, distance_count, excecution_stage, fingers_response,
                   dq, pq, events, window, last>>

\* the Actuator Service answers the fingers call that is still open
FingersReply ==
    /\ Running
    /\ fingers_response = "pending"
    /\ fingers_response' \in {"success", "failure"}
    /\ UNCHANGED <<aux, pc, uncaught, distance_count, excecution_stage, vacuum_response,
                   dq, pq, events, window, last>>

Next ==
    \/ PublishDistance
    \/ PublishPressure
    \/ DispatchDistance
    \/ DispatchPressure
    \/ Interrupt
    \/ NextBagNumber
    \/ StartRecorder
    \/ SettleAfterStart
    \/ TurnVacuumOn
    \/ EngageFingers
    \/ OperatorConfirm
    \/ DisengageFingers
    \/ TurnVacuumOff
    \/ StopRecorder
    \/ SettleAfterStop
    \/ VacuumReply
    \/ FingersReply

Spec == Init /\ [][Next]_vars

---------------------------------------------------------------------------
(* The spec's Sequence Stage, read off the program state *)

Has(e) == \E i \in 1..Len(events) : events[i] = e

Count(e) == Cardinality({ i \in 1..Len(events) : events[i] = e })

\* 0 AWAITING_PROXIMITY, 1 AWAITING_SUCTION, 2 AWAITING_RELEASE (entered with the
\* fingers-close command), 3 COMPLETE (entered with the vacuum-off command)
SequenceStage ==
    IF Has("vacuum_off") THEN 3
    ELSE IF Has("fingers_close") THEN 2
    ELSE excecution_stage

\* the order of events of one whole pick
PickOrder == <<"recorder_start", "vacuum_on", "fingers_close", "operator_confirm",
               "fingers_open", "vacuum_off", "recorder_stop">>

IsPrefix(a, b) == Len(a) <= Len(b) /\ \A i \in 1..Len(a) : a[i] = b[i]

\* steps, told apart by what they do to the backlog and the history
DistanceStep == dq' = dq - 1
PressureStep == pq' = pq - 1
InterruptStep == last'.kind = "interrupt" /\ last.kind # "interrupt"

AllInBand(w) == Len(w) = GOOD_READINGS /\ \A i \in 1..Len(w) : w[i]

---------------------------------------------------------------------------
(* Claims *)

\* C1: the proximity gate trips (excecution_stage becomes 1) only when the 10
\* distance readings delivered most recently, the one that trips it included,
\* all lie strictly between 100 and 200.
C1_TripOnlyOnTenInBand == excecution_stage = 1 => AllInBand(window)

\* C2: the gate trips on delivery of the 10th consecutive in-band reading, with
\* no further reading needed: once the 10 readings delivered most recently are
\* all in band, the proximity wait is over.
C2_TripsOnTenthReading ==
    (uncaught = "none" /\ AllInBand(window)) => excecution_stage = 1

\* C3: in the suction wait the stage is 1, a delivered pressure reading ends the
\* wait exactly when its three channels sum to less than 2000 (one reading is
\* enough, a sum of 2000 or more leaves the wait running), and fingers-close is
\* issued exactly once after the wait has ended.
C3_SuctionGate ==
    /\ [](pc = "spin_pressure" => excecution_stage = 1 /\ ~Has("fingers_close"))
    /\ [](Count("fingers_close") =
            IF pc \in {"prompt_release", "fingers_open", "vacuum_off",
                       "stop_recorder", "sleep_stop", "done"} THEN 1 ELSE 0)
    /\ [][(pc = "spin_pressure" /\ PressureStep) =>
            /\ last'.evaluated
            /\ uncaught' = "none"
            /\ pc' = IF ChannelSum(last'.msg) < 2000
                     THEN "fingers_close" ELSE "spin_pressure"]_vars

C3_Witness ==
    /\ pc = "fingers_close"
    /\ last.kind = "pressure"
    /\ ChannelSum(last.msg) = 1999

\* C4: an operator interrupt delivered during either wait ends that wait and the
\* sequence goes on as after the threshold: to the vacuum-on command from the
\* proximity wait, to the fingers-close command from the suction wait.
C4_InterruptSkipsWait ==
    [][(Running /\ Spinning(pc) /\ InterruptStep) =>
         /\ uncaught' = "none"
         /\ pc' = IF pc = "spin_distance" THEN "vacuum_on" ELSE "fingers_close"]_vars

\* C5: the events of a pick happen in the order recorder start, vacuum-on,
\* fingers-close, operator confirmation, fingers-open, vacuum-off, recorder stop,
\* none twice, and a run that reaches its end has had all of them.
C5_EventOrder ==
    /\ IsPrefix(events, PickOrder)
    /\ pc = "done" => events = PickOrder

C5_Witness == pc = "done" /\ Len(events) = 7

\* C6: a pressure reading delivered before the proximity gate is through is not
\* evaluated and ends nothing; a distance reading delivered after vacuum-on is
\* not evaluated and changes neither counter nor stage; the suction wait is
\* ended only by a pressure reading or by an operator interrupt.
C6_GatesDoNotOverlap ==
    [][ /\ (PressureStep /\ pc = "spin_distance") =>
              ~last'.evaluated /\ prog' = prog
        /\ (DistanceStep /\ Has("vacuum_on")) =>
              ~last'.evaluated /\ prog' = prog
        /\ (pc = "spin_pressure" /\ <<pc, uncaught>>' # <<pc, uncaught>>) =>
              PressureStep \/ InterruptStep ]_vars

C6_Witness ==
    /\ pc = "spin_pressure"
    /\ uncaught = "none"
    /\ last.kind = "distance"
    /\ last.msg = <<"2","5","0">>

\* C7: the sequence stage never goes back: every step leaves it equal or later.
C7_StageOnlyAdvances == [][SequenceStage' >= SequenceStage]_vars

C7_Witness == pc = "done" /\ SequenceStage = 3 /\ excecution_stage = 1

\* C8: from the fingers-close command to the operator's confirmation no reading
\* is handed to a callback, and a reading that arrives changes neither stage nor
\* counter nor issues a command; only the confirmation moves the sequence on.
C8_ReleaseIgnoresReadings ==
    [][(SequenceStage = 2 /\ ~Has("operator_confirm")) =>
         /\ dq' >= dq
         /\ pq' >= pq
         /\ \/ <<pc, distance_count, excecution_stage, events>>'
                 = <<pc, distance_count, excecution_stage, events>>
            \/ /\ events' = Append(events, "operator_confirm")
               /\ <<distance_count, excecution_stage>>'
                    = <<distance_count, excecution_stage>>]_vars

C8_Witness ==
    /\ pc = "prompt_release"
    /\ uncaught = "none"
    /\ dq > 0
    /\ pq > 0

\* C9: fingers-open and vacuum-off are never issued before the operator's
\* confirmation, and nothing but that confirmation takes the process off the
\* prompt, where fingers are commanded closed, the vacuum on, and the recorder
\* is running.
C9_ReleaseNeedsConfirmation ==
    /\ []((Has("fingers_open") \/ Has("vacuum_off")) => Has("operator_confirm"))
    /\ [](pc = "prompt_release" =>
            events = <<"recorder_start", "vacuum_on", "fingers_close">>)
    /\ [][pc = "prompt_release" =>
            \/ pc' = "prompt_release" /\ events' = events
            \/ pc' = "fingers_open" /\ events' = Append(events, "operator_confirm")]_vars

C9_Witness ==
    /\ pc = "prompt_release"
    /\ events = <<"recorder_start", "vacuum_on", "fingers_close">>
    /\ uncaught = "none"

\* C10: whatever the Actuator Service has answered (success, failure, nothing
\* yet), the step that follows a command can be taken, no command goes out
\* twice, and an answer changes nothing in the sequencer.
C10_FireAndContinue ==
    /\ []((Running /\ pc = "fingers_close") => ENABLED EngageFingers)
    /\ []((Running /\ pc = "prompt_release") => ENABLED OperatorConfirm)
    /\ []((Running /\ pc = "fingers_open") => ENABLED DisengageFingers)
    /\ []((Running /\ pc = "vacuum_off") => ENABLED TurnVacuumOff)
    /\ []((Running /\ pc = "stop_recorder") => ENABLED StopRecorder)
    /\ [](\A e \in {"vacuum_on", "vacuum_off", "fingers_close", "fingers_open"} :
             Count(e) <= 1)
    /\ [][(\/ vacuum_response = "pending" /\ vacuum_response' # "pending"
           \/ fingers_response = "pending" /\ fingers_response' # "pending")
          => prog' = prog]_vars

C10_Witness ==
    /\ pc = "done"
    /\ vacuum_response = "failure"
    /\ fingers_response = "pending"

\* C11: the recorder is started before the first wait and before any reading is
\* handed to a callback, it is running (started, not stopped) through both
\* waits and the release prompt, and it is stopped only after vacuum-off.
C11_RecorderSpansPick ==
    /\ pc \in {"sleep_start", "spin_distance", "vacuum_on", "spin_pressure",
               "fingers_close", "prompt_release", "fingers_open", "vacuum_off"}
         => Has("recorder_start") /\ ~Has("recorder_stop")
    /\ last.kind \in {"distance", "pressure"} => Has("recorder_start")
    /\ Has("recorder_stop") => Has("vacuum_off") /\ events[Len(events)] = "recorder_stop"

C11_Witness ==
    /\ pc = "sleep_stop"
    /\ Has("recorder_stop")
    /\ last.kind = "pressure"
    /\ last.evaluated

---------------------------------------------------------------------------
(* The session-name search of lines 116-120 on its own, over every set of
   bag numbers already on disk for the day *)

MaxBags == 6

InitNaming ==
    /\ Constructed
    /\ bags \in SUBSET (1..MaxBags)
    /\ payload = <<>>
    /\ extracted = [error |-> "unread"]

NextNaming ==
    \/ NextBagNumber
    \/ StartRecorder

SpecNaming == InitNaming /\ [][NextNaming]_vars

\* C12: the search ends after at most one step per existing name, and the
\* recorder is started under the smallest n >= 1 whose name does not exist:
\* all of _1 .. _(n-1) exist, _n does not; with _1 and _2 existing n is 3.
C12_FirstFreeName ==
    /\ rosbag_number \in 1..(Cardinality(bags) + 1)
    /\ \A k \in 1..(rosbag_number - 1) : k \in bags
    /\ pc = "start_recorder" => ENABLED NextNaming
    /\ Has("recorder_start") =>
         /\ rosbag_number \notin bags
         /\ (bags = {1, 2} => rosbag_number = 3)

C12_Witness ==
    /\ Has("recorder_start")
    /\ bags = {1, 2}
    /\ rosbag_number = 3

---------------------------------------------------------------------------
(* The proximity gate, reading by reading *)

\* C13: a payload without a numeric token, dispatched during the proximity
\* wait while the stage is still 0, ends the run with the parse failure: the
\* counter is neither reset nor advanced, the wait is left without a further
\* command, and a run ended that way has issued no vacuum-on.
C13_MalformedIsFatal ==
    [][ ( /\ DistanceStep
          /\ pc = "spin_distance"
          /\ excecution_stage = 0
          /\ Extract(last'.msg).error = "AttributeError" )
        => ( /\ uncaught' = "AttributeError"
             /\ pc' = pc
             /\ distance_count' = distance_count
             /\ events' = events
             /\ ~Has("vacuum_on") ) ]_vars

\* C15: every well-formed reading dispatched while the stage is still 0 sets
\* the counter to 0 when out of band and adds 1 when in band, whatever the
\* counter holds.
C15_EveryReadingCounts ==
    [][ ( /\ DistanceStep
          /\ excecution_stage = 0
          /\ Extract(last'.msg).error = "none" )
        => distance_count' = IF StrictlyInside(last'.msg)
                             THEN distance_count + 1 ELSE 0 ]_vars

---------------------------------------------------------------------------
(* Lines 83-84 on their own: the number read from one payload *)

MaxLen == 4

\* digits, the sign, the point and a letter
Alphabet == {"1", "2", "-", ".", "a"}

\* every payload of at most MaxLen characters, and three longer ones
ExtractPayloads ==
    UNION { [1..n -> Alphabet] : n \in 0..MaxLen }
    \cup { <<"d","i","s","t","=","1","5","7",".","3","m","m">>,
           <<"n","o"," ","d","a","t","a">>,
           <<"a","-","-","1","2">> }

InitExtract ==
    /\ Constructed
    /\ bags = {1, 2}
    /\ payload \in ExtractPayloads
    /\ extracted = [error |-> "unread"]

\* data = re.search(...); float(data.group(0))
ApplyExtract ==
    /\ extracted.error = "unread"
    /\ extracted' = Extract(payload)
    /\ UNCHANGED <<pc, uncaught, distance_count, excecution_stage, vacuum_response,
                   fingers_response, dq, pq, events, window, last, bags,
                   rosbag_number, payload>>

SpecExtract == InitExtract /\ [][ApplyExtract]_vars

\* s[i..j] is a numeric token: an optional sign, digits, and optionally a point
\* followed by digits; e is where the integer part ends
NumericToken(s, i, j) ==
    \E a \in {IF s[i] = "-" THEN i + 1 ELSE i} :
        \E e \in a..j :
            /\ \A x \in a..e : s[x] \in Digits
            /\ \/ e = j
               \/ /\ e + 2 <= j
                  /\ s[e + 1] = "."
                  /\ \A x \in (e + 2)..j : s[x] \in Digits

NumericTokens(s) ==
    { t \in (1..Len(s)) \X (1..Len(s)) : t[1] <= t[2] /\ NumericToken(s, t[1], t[2]) }

\* the tokens that no other token contains
MaximalTokens(s) ==
    { t \in NumericTokens(s) :
        \A u \in NumericTokens(s) : (u[1] <= t[1] /\ t[2] <= u[2]) => u = t }

LastToken(s) ==
    CHOOSE t \in MaximalTokens(s) : \A u \in MaximalTokens(s) : u[1] <= t[1]

\* the value of the token s[i..j] as a fraction
TokenValue(s, i, j) ==
    LET a == IF s[i] = "-" THEN i + 1 ELSE i
        e == CHOOSE x \in a..j : /\ \A y \in a..x : s[y] \in Digits
                                 /\ (x = j \/ s[x + 1] = ".")
        f == IF e = j THEN 0 ELSE j - e - 1
    IN  [num |-> (IF s[i] = "-" THEN -1 ELSE 1)
                 * ( DecVal(s, a, e) * Pow10(f)
                     + (IF e = j THEN 0 ELSE DecVal(s, e + 2, j)) ),
         den |-> Pow10(f)]

\* C14: the extraction fails when the payload has no digit, and otherwise
\* yields the value of the last maximal numeric token of the payload.
C14_LastNumericToken ==
    extracted.error # "unread" =>
        IF MaximalTokens(payload) = {}
        THEN extracted.error # "none"
        ELSE /\ extracted.error = "none"
             /\ \E t \in {LastToken(payload)} :
                  \E v \in {TokenValue(payload, t[1], t[2])} :
                      extracted.num * v.den = v.num * extracted.den

---------------------------------------------------------------------------
(* The counter and the end of the proximity wait *)

\* C18: the counter is always an integer from 0 to 10, and once the distance
\* callback has set the stage to 1 the counter is 10 in every later state.
C18_CounterRange ==
    /\ distance_count \in 0..GOOD_READINGS
    /\ excecution_stage = 1 => distance_count = GOOD_READINGS

C18_Witness ==
    /\ excecution_stage = 1
    /\ distance_count = GOOD_READINGS
    /\ pc = "done"
    /\ window[GOOD_READINGS] = FALSE

C17_RecorderStoppedAtEnd ==
    ( /\ Has("recorder_start")
      /\ \/ pc = "done"
         \/ uncaught # "none" /\ pc \in {"spin_distance", "spin_pressure"} )
    => Has("recorder_stop")

---------------------------------------------------------------------------
(* The pick sequence with a feed and an operator that let it finish *)

\* the feed sends no payload that fails to parse
WellFormedDispatch ==
    /\ DispatchDistance
    /\ Extract(last'.msg).error = "none"

\* Ctrl+C while the log says "(Ctrl+c to skip waiting)": during a wait
SkipWait ==
    /\ Interrupt
    /\ Spinning(pc)

\* the statements of proxy_pick_sequence that return on their own
Sequencer ==
    \/ NextBagNumber
    \/ StartRecorder
    \/ SettleAfterStart
    \/ TurnVacuumOn
    \/ EngageFingers
    \/ DisengageFingers
    \/ TurnVacuumOff
    \/ StopRecorder
    \/ SettleAfterStop

NextLive ==
    \/ PublishDistance
    \/ PublishPressure
    \/ WellFormedDispatch
    \/ DispatchPressure
    \/ SkipWait
    \/ Sequencer
    \/ OperatorConfirm
    \/ VacuumReply
    \/ FingersReply

\* the feed keeps publishing, every in-band continuation of a run and the
\* message after it come about if they can again and again, as does a pressure
\* reading that ends the second wait, and the operator answers the prompt
LiveSpec ==
    /\ Init
    /\ [][NextLive]_vars
    /\ WF_vars(Sequencer)
    /\ WF_vars(PublishDistance)
    /\ WF_vars(PublishPressure)
    /\ \A k \in 0..(GOOD_READINGS - 1) :
         SF_vars(WellFormedDispatch /\ distance_count = k /\ distance_count' = k + 1)
    /\ SF_vars(WellFormedDispatch /\ pc' = "vacuum_on")
    /\ SF_vars(DispatchPressure /\ pc' = "fingers_close")
    /\ WF_vars(OperatorConfirm)

Complete ==
    /\ pc = "done"
    /\ Has("fingers_open")
    /\ Has("vacuum_off")
    /\ Has("recorder_stop")

\* C16: with such a feed and operator no run stops short of COMPLETE: until
\* fingers-open, vacuum-off and the recorder stop have been issued and the
\* sequence has returned, some step of the run is still possible.
C16_NoRunStopsShort == Complete \/ ENABLED NextLive

====
